---- MODULE Spec2Model ----
(***************************************************************************)
(* Reminder scheduling and delivery of the Sara bot: the reminder store    *)
(* (services/reminder_service.py), the job-queue scheduler and its         *)
(* periodic check (services/scheduler_service.py), the start-up sequence   *)
(* (bot.py) and the request handlers that create, complete and delete      *)
(* reminders (handlers/conversation_handlers.py).                          *)
(*                                                                         *)
(* Time is in seconds.  The clock advances in steps of Unit; a job of the  *)
(* queue runs as soon as its time is reached while the process is up.      *)
(* Callbacks of the job queue and request handlers run one at a time; a    *)
(* process crash can happen between any two steps of a callback.           *)
(***************************************************************************)
EXTENDS Integers, Sequences, FiniteSets, TLC

\* ---------------------------------------------------------------- bounds
MaxTime == 7        \* the clock stops after MaxTime units
MaxReminders == 1   \* reminders created through the creation flow
MaxCrashes == 1     \* process crashes
MaxRows == 2        \* rows inserted by direct ReminderService calls (SpecStore)
MaxArmed == 2       \* jobs armed under one name by direct schedule_reminder calls
MaxUsers == 3       \* rows of table users

\* ------------------------------------------------------ program constants
FLOOR_DELAY == 60   \* schedule_reminder: when = 60 for a past-due reminder
FIRST_RUN == 60     \* schedule_periodic_check: first=60
INTERVAL == 300     \* schedule_periodic_check: interval=300
HORIZON_DAYS == 365 \* reschedule_all_pending_reminders: timedelta(days=365)

Unit == FLOOR_DELAY
Horizon == HORIZON_DAYS * 24 * 3600
EndOfTime == MaxTime * Unit
\* the instants parse_reminder_data hands to the creation flow: at or before
\* the start of the clock, and after it
DueTimes == {0, Unit}

TelegramIds == {101, 102, 103}
ReminderIds == 1..MaxReminders
\* values of uuid.uuid4().hex[:8]
Uuids == {"3f2a9c1e", "b07d44aa"}
NoJob == [reminder_id |-> 0, user_telegram_id |-> 0]

VARIABLES
    now,        \* datetime.now(pytz.UTC)
    up,         \* the process is running (initialize has completed)
    users,      \* table users: id -> User
    store,      \* table reminders: id -> Reminder
    nextId,     \* next primary key of table reminders
    timers,     \* job_queue: the run_once jobs
    sweepAt,    \* job_queue: next run of "periodic_reminder_check"
    pc,         \* position of the running job callback
    job,        \* context.job.data of the running _send_reminder_callback
    queue,      \* pending_reminders still to visit in the running check
    sessions,   \* number of sessions made by SessionLocal() and not yet closed
    attempts,   \* history: send_message calls per reminder id
    successes,  \* history: send_message calls that returned, per reminder id
    early,      \* history: ids handed to send_message before their due instant
    crashes,    \* history: number of crashes
    crashSeen,  \* history: per id, 0 no crash since created, 1 crashes before due only, 2 a crash at or after due
    boot,       \* history: [at, overdue]: time of the last start, pending overdue ids then
    tick,       \* history: [elig, count]: the running/last check's eligible ids, attempts made
    last        \* history: the last ReminderService call [op, id, arg, ret, before]

vars == <<now, up, users, store, nextId, timers, sweepAt, pc, job, queue, sessions,
          attempts, successes, early, crashes, crashSeen, boot, tick, last>>

\* ------------------------------------------------------------- helpers
\* db_manager.get_sync_session() entered by a with statement: one more session
SessionEnter(open) == open + 1

\* variant: leaving the with block does not close the session
SessionExit_open(open) == open

\* Session.__exit__ at the end of the with block, however the block is left:
\* close(), which rolls back what was not committed
SessionExit(open) == open - 1

NoneDate == -1

Remove(db, reminder_id) == [i \in DOMAIN db \ {reminder_id} |-> db[i]]

Insert(db, reminder_id, r) ==
    [i \in DOMAIN db \cup {reminder_id} |-> IF i = reminder_id THEN r ELSE db[i]]

\* UserService.get_user_by_telegram_id: .first() of the rows with that
\* telegram_id, as the row's id, or 0 for None
get_user_by_telegram_id(usrs, telegram_id) ==
    IF \E u \in DOMAIN usrs : usrs[u].telegram_id = telegram_id
    THEN CHOOSE u \in DOMAIN usrs : usrs[u].telegram_id = telegram_id
    ELSE 0

\* the User row built from a telegram user
UserRow(telegram_user) ==
    [telegram_id |-> telegram_user.id, username |-> telegram_user.username,
     first_name |-> telegram_user.first_name, last_name |-> telegram_user.last_name]

\* variant: always inserts a new row
get_or_create_user_inserts(usrs, telegram_user) ==
    LET new_id == Cardinality(DOMAIN usrs) + 1
    IN  [db |-> Insert(usrs, new_id, UserRow(telegram_user)), ret |-> new_id]

\* UserService.get_or_create_user: the row found by telegram_id takes the
\* attributes that differ; without one a new row is inserted under the next
\* id. Returns the table and the id of the row returned.
get_or_create_user(usrs, telegram_user) ==
    LET user == get_user_by_telegram_id(usrs, telegram_user.id)
        new_id == Cardinality(DOMAIN usrs) + 1
    IN  IF user # 0
        THEN [db |-> [usrs EXCEPT
                        ![user].username = telegram_user.username,
                        ![user].first_name = telegram_user.first_name,
                        ![user].last_name = telegram_user.last_name],
              ret |-> user]
        ELSE [db |-> Insert(usrs, new_id, UserRow(telegram_user)), ret |-> new_id]

\* reminder.user.telegram_id
TelegramOf(usrs, user_id) == usrs[user_id].telegram_id

\* variant: no index, a job_id may be stored twice
JobIdTaken_never(db, job_id) == FALSE

\* the unique index on reminders.job_id
JobIdTaken(db, job_id) == \E i \in DOMAIN db : db[i].job_id = job_id

\* query.order_by(Reminder.reminder_date.asc()).all() over the rows ids:
\* every order the database may return (rows of equal date in any order)
OrderByDate(db, ids) ==
    {s \in [1..Cardinality(ids) -> ids] :
        /\ \A i, j \in 1..Cardinality(ids) : i # j => s[i] # s[j]
        /\ \A i, j \in 1..Cardinality(ids) :
              i < j => db[s[i]].reminder_date <= db[s[j]].reminder_date}

\* ------------------------------------------------------ ReminderService
\* variant: the reminder is stored whether or not the user exists
create_reminder_nouser(db, usrs, new_id, telegram_id, reminder_date, uuid, commit_ok) ==
    LET user_id == get_user_by_telegram_id(usrs, telegram_id)
        job_id == [uuid |-> uuid, user_id |-> user_id]
    IN  IF commit_ok /\ ~JobIdTaken(db, job_id)
        THEN [db |-> Insert(db, new_id,
                            [user_id |-> user_id,
                             reminder_date |-> reminder_date,
                             is_sent |-> FALSE,
                             is_completed |-> FALSE,
                             job_id |-> job_id]),
              ret |-> new_id]
        ELSE [db |-> db, ret |-> 0]

\* variant: a failed commit leaves the new row behind
create_reminder_norollback(db, usrs, new_id, telegram_id, reminder_date, uuid, commit_ok) ==
    LET user_id == get_user_by_telegram_id(usrs, telegram_id)
        job_id == [uuid |-> uuid, user_id |-> user_id]
        db_added == Insert(db, new_id,
                           [user_id |-> user_id,
                            reminder_date |-> reminder_date,
                            is_sent |-> FALSE,
                            is_completed |-> FALSE,
                            job_id |-> job_id])
    IN  IF user_id = 0
        THEN [db |-> db, ret |-> 0]
        ELSE IF commit_ok /\ ~JobIdTaken(db, job_id)
             THEN [db |-> db_added, ret |-> new_id]
             ELSE [db |-> db_added, ret |-> 0]

\* create_reminder: ret is the new reminder's id, 0 for None
create_reminder(db, usrs, new_id, telegram_id, reminder_date, uuid, commit_ok) ==
    LET user_id == get_user_by_telegram_id(usrs, telegram_id)
        job_id == [uuid |-> uuid, user_id |-> user_id]
    IN  IF user_id = 0
        THEN [db |-> db, ret |-> 0]
        ELSE IF commit_ok /\ ~JobIdTaken(db, job_id)
             THEN [db |-> Insert(db, new_id,
                                 [user_id |-> user_id,
                                  reminder_date |-> reminder_date,
                                  is_sent |-> FALSE,
                                  is_completed |-> FALSE,
                                  job_id |-> job_id]),
                   ret |-> new_id]
             ELSE [db |-> db, ret |-> 0]

\* variant: reminder_date < limit_date
PendingIds_strict(db, limit_date, utcnow) ==
    {i \in DOMAIN db :
        /\ db[i].is_sent = FALSE
        /\ db[i].is_completed = FALSE
        /\ IF limit_date # NoneDate
           THEN db[i].reminder_date < limit_date
           ELSE db[i].reminder_date < utcnow}

\* variant: is_sent == True
PendingIds_sent(db, limit_date, utcnow) ==
    {i \in DOMAIN db :
        /\ db[i].is_sent = TRUE
        /\ db[i].is_completed = FALSE
        /\ IF limit_date # NoneDate
           THEN db[i].reminder_date <= limit_date
           ELSE db[i].reminder_date <= utcnow}

\* variant: is_completed == True
PendingIds_completed(db, limit_date, utcnow) ==
    {i \in DOMAIN db :
        /\ db[i].is_sent = FALSE
        /\ db[i].is_completed = TRUE
        /\ IF limit_date # NoneDate
           THEN db[i].reminder_date <= limit_date
           ELSE db[i].reminder_date <= utcnow}

\* the rows get_pending_reminders selects
PendingIds(db, limit_date, utcnow) ==
    {i \in DOMAIN db :
        /\ db[i].is_sent = FALSE
        /\ db[i].is_completed = FALSE
        /\ IF limit_date # NoneDate
           THEN db[i].reminder_date <= limit_date
           ELSE db[i].reminder_date <= utcnow}

\* get_pending_reminders: the set of sequences of ids the query may return
get_pending_reminders(db, limit_date, utcnow) ==
    OrderByDate(db, PendingIds(db, limit_date, utcnow))

\* variant: no filter on Reminder.user_id
UserReminderIds_anyone(db, user_id, include_completed) ==
    {i \in DOMAIN db : include_completed \/ db[i].is_completed = FALSE}

\* the rows get_user_reminders selects for the user row user_id
UserReminderIds(db, user_id, include_completed) ==
    {i \in DOMAIN db :
        /\ db[i].user_id = user_id
        /\ include_completed \/ db[i].is_completed = FALSE}

\* get_user_reminders: the set of sequences of ids the query may return
get_user_reminders(db, usrs, telegram_id, include_completed) ==
    LET user == get_user_by_telegram_id(usrs, telegram_id)
    IN  IF user = 0
        THEN {<<>>}
        ELSE OrderByDate(db, UserReminderIds(db, user, include_completed))

\* get_reminder_statistics: four count() queries on the rows of the user; the
\* third filters on the clock as the query is built (now_pending), the fourth
\* on the clock read again for it (now_overdue). ok is FALSE for the empty
\* dict of an unknown user.
get_reminder_statistics(db, usrs, telegram_id, now_pending, now_overdue) ==
    LET user == get_user_by_telegram_id(usrs, telegram_id)
        mine == {i \in DOMAIN db : db[i].user_id = user}
    IN  IF user = 0
        THEN [ok |-> FALSE, stats |-> <<>>]
        ELSE [ok |-> TRUE,
              stats |->
                [total |-> Cardinality(mine),
                 completed |-> Cardinality({i \in mine : db[i].is_completed = TRUE}),
                 pending |-> Cardinality({i \in mine :
                                 /\ db[i].is_completed = FALSE
                                 /\ db[i].reminder_date > now_pending}),
                 overdue |-> Cardinality({i \in mine :
                                 /\ db[i].is_completed = FALSE
                                 /\ db[i].reminder_date <= now_overdue})]]

\* variant: the flag is never written
mark_reminder_as_sent_unsaved(db, reminder_id, commit_ok) ==
    IF reminder_id \in DOMAIN db
    THEN [db |-> db, ret |-> commit_ok]
    ELSE [db |-> db, ret |-> FALSE]

\* variant: a reminder already sent counts as not found
mark_reminder_as_sent_once(db, reminder_id, commit_ok) ==
    IF reminder_id \in DOMAIN db /\ ~db[reminder_id].is_sent
    THEN IF commit_ok
         THEN [db |-> [db EXCEPT ![reminder_id].is_sent = TRUE], ret |-> TRUE]
         ELSE [db |-> db, ret |-> FALSE]
    ELSE [db |-> db, ret |-> FALSE]

\* variant: marking as sent also completes
mark_reminder_as_sent_completes(db, reminder_id, commit_ok) ==
    IF reminder_id \in DOMAIN db
    THEN IF commit_ok
         THEN [db |-> [db EXCEPT ![reminder_id].is_sent = TRUE,
                                 ![reminder_id].is_completed = TRUE],
               ret |-> TRUE]
         ELSE [db |-> db, ret |-> FALSE]
    ELSE [db |-> db, ret |-> FALSE]

\* variant: a failed commit is not rolled back
mark_reminder_as_sent_norollback(db, reminder_id, commit_ok) ==
    IF reminder_id \in DOMAIN db
    THEN [db |-> [db EXCEPT ![reminder_id].is_sent = TRUE], ret |-> commit_ok]
    ELSE [db |-> db, ret |-> FALSE]

mark_reminder_as_sent(db, reminder_id, commit_ok) ==
    IF reminder_id \in DOMAIN db
    THEN IF commit_ok
         THEN [db |-> [db EXCEPT ![reminder_id].is_sent = TRUE], ret |-> TRUE]
         ELSE [db |-> db, ret |-> FALSE]
    ELSE [db |-> db, ret |-> FALSE]

\* variant: completing also clears is_sent
mark_reminder_as_completed_resets(db, reminder_id, commit_ok) ==
    IF reminder_id \in DOMAIN db
    THEN IF commit_ok
         THEN [db |-> [db EXCEPT ![reminder_id].is_completed = TRUE,
                                 ![reminder_id].is_sent = FALSE],
               ret |-> TRUE]
         ELSE [db |-> db, ret |-> FALSE]
    ELSE [db |-> db, ret |-> FALSE]

mark_reminder_as_completed(db, reminder_id, commit_ok) ==
    IF reminder_id \in DOMAIN db
    THEN IF commit_ok
         THEN [db |-> [db EXCEPT ![reminder_id].is_completed = TRUE], ret |-> TRUE]
         ELSE [db |-> db, ret |-> FALSE]
    ELSE [db |-> db, ret |-> FALSE]

\* variant: the reminder is looked up by id alone
delete_reminder_any(db, usrs, reminder_id, telegram_id, commit_ok) ==
    LET user_id == get_user_by_telegram_id(usrs, telegram_id)
    IN  IF user_id = 0
        THEN [db |-> db, ret |-> FALSE]
        ELSE IF reminder_id \in DOMAIN db
             THEN IF commit_ok
                  THEN [db |-> Remove(db, reminder_id), ret |-> TRUE]
                  ELSE [db |-> db, ret |-> FALSE]
             ELSE [db |-> db, ret |-> FALSE]

delete_reminder(db, usrs, reminder_id, telegram_id, commit_ok) ==
    LET user_id == get_user_by_telegram_id(usrs, telegram_id)
    IN  IF user_id = 0
        THEN [db |-> db, ret |-> FALSE]
        ELSE IF reminder_id \in DOMAIN db /\ db[reminder_id].user_id = user_id
             THEN IF commit_ok
                  THEN [db |-> Remove(db, reminder_id), ret |-> TRUE]
                  ELSE [db |-> db, ret |-> FALSE]
             ELSE [db |-> db, ret |-> FALSE]

\* ----------------------------------------------------- SchedulerService
\* variant: the job is looked up under another name
get_jobs_by_name_none(jobs, name) == {}

\* variant: looks the jobs up under the name of the periodic check
get_jobs_by_name_other(jobs, name) ==
    {j \in jobs : j.name = [name EXCEPT !.uuid = "periodic_reminder_check"]}

get_jobs_by_name(jobs, name) == {j \in jobs : j.name = name}

\* variant: the job runs at once, whatever the reminder_date
schedule_reminder_at_once(jobs, usrs, reminder_id, r, utcnow, run_once_ok) ==
    IF run_once_ok
    THEN [jobs |-> jobs \cup
              {[name |-> r.job_id,
                at |-> utcnow,
                n |-> Cardinality(get_jobs_by_name(jobs, r.job_id)),
                data |-> [reminder_id |-> reminder_id,
                          user_telegram_id |-> TelegramOf(usrs, r.user_id)]]},
          ret |-> TRUE]
    ELSE [jobs |-> jobs, ret |-> FALSE]

\* schedule_reminder: run_once(callback, when, data, name) makes a new job at
\* each call; a job's "at" is the instant the queue runs it, its "n" tells it
\* from the jobs already armed under the same name
schedule_reminder(jobs, usrs, reminder_id, r, utcnow, run_once_ok) ==
    LET when == IF r.reminder_date <= utcnow
                THEN FLOOR_DELAY
                ELSE r.reminder_date - utcnow
    IN  IF run_once_ok
        THEN [jobs |-> jobs \cup
                  {[name |-> r.job_id,
                    at |-> utcnow + when,
                    n |-> Cardinality(get_jobs_by_name(jobs, r.job_id)),
                    data |-> [reminder_id |-> reminder_id,
                              user_telegram_id |-> TelegramOf(usrs, r.user_id)]]},
              ret |-> TRUE]
        ELSE [jobs |-> jobs, ret |-> FALSE]

\* the job run_repeating makes in schedule_periodic_check; next_check is the
\* instant the queue runs it next
PeriodicCheckJob(next_check) ==
    [name |-> [uuid |-> "periodic_reminder_check", user_id |-> 0],
     at |-> next_check, n |-> 0, data |-> NoJob]

\* job_queue.jobs() of a running bot: the armed reminder jobs and the job of
\* the periodic check
job_queue_jobs(jobs, next_check) == jobs \cup {PeriodicCheckJob(next_check)}

\* variant: counts the jobs armed by schedule_reminder only
get_scheduled_jobs_count_reminders(jobs, next_check) == Cardinality(jobs)

\* get_scheduled_jobs_count: len(self.job_queue.jobs())
get_scheduled_jobs_count(jobs, next_check) ==
    Cardinality(job_queue_jobs(jobs, next_check))

\* variant: every job of the queue is removed
cancel_reminder_all(jobs, job_id) ==
    [jobs |-> {}, ret |-> TRUE]

cancel_reminder(jobs, job_id) ==
    [jobs |-> jobs \ get_jobs_by_name(jobs, job_id), ret |-> TRUE]

\* variant: no upper limit on reminder_date
FutureIds_nolimit(db, utcnow) ==
    {i \in DOMAIN db :
        /\ db[i].is_sent = FALSE
        /\ db[i].is_completed = FALSE
        /\ db[i].reminder_date > utcnow}

\* the rows reschedule_all_pending_reminders selects
FutureIds(db, utcnow) ==
    {i \in DOMAIN db :
        /\ db[i].is_sent = FALSE
        /\ db[i].is_completed = FALSE
        /\ db[i].reminder_date > utcnow
        /\ db[i].reminder_date <= utcnow + Horizon}

RECURSIVE ScheduleAll(_, _, _, _, _)
ScheduleAll(jobs, usrs, db, ids, utcnow) ==
    IF ids = {}
    THEN jobs
    ELSE LET i == CHOOSE x \in ids : TRUE
         IN  ScheduleAll(schedule_reminder(jobs, usrs, i, db[i], utcnow, TRUE).jobs,
                         usrs, db, ids \ {i}, utcnow)

\* reschedule_all_pending_reminders on the job queue jobs
\* variant: the pass runs twice
reschedule_all_pending_reminders_twice(jobs, usrs, db, utcnow) ==
    ScheduleAll(ScheduleAll(jobs, usrs, db, FutureIds(db, utcnow), utcnow),
                usrs, db, FutureIds(db, utcnow), utcnow)

\* variant: the pass arms nothing
reschedule_all_pending_reminders_none(jobs, usrs, db, utcnow) == jobs

reschedule_all_pending_reminders(jobs, usrs, db, utcnow) ==
    ScheduleAll(jobs, usrs, db, FutureIds(db, utcnow), utcnow)


\* ------------------------------------------------------------------ state
Idle == up /\ pc = "idle"

NoCall == [op |-> "none", id |-> 0, arg |-> 0, ok |-> FALSE, rows |-> <<>>,
           commit |-> TRUE, before |-> <<>>]

Init ==
    /\ now = 0
    /\ up = TRUE
    /\ users = [u \in {1, 2} |->
                   [telegram_id |-> 100 + u, username |-> "ana",
                    first_name |-> "Ana", last_name |-> "Lima"]]
    /\ store = <<>>
    /\ nextId = 1
    /\ timers = {}
    /\ sweepAt = FIRST_RUN
    /\ pc = "idle"
    /\ job = NoJob
    /\ queue = <<>>
    /\ sessions = 0
    /\ attempts = [i \in ReminderIds |-> 0]
    /\ successes = [i \in ReminderIds |-> 0]
    /\ early = {}
    /\ crashes = 0
    /\ crashSeen = [i \in ReminderIds |-> 0]
    /\ boot = [at |-> 0, overdue |-> {}]
    /\ tick = [elig |-> {}, count |-> [i \in ReminderIds |-> 0]]
    /\ last = NoCall

\* context.bot.send_message / self.bot.send_message for the reminder of `job`:
\* returns (ok) or raises
send_message(ok) ==
    /\ attempts' = [attempts EXCEPT ![job.reminder_id] = @ + 1]
    /\ successes' = [successes EXCEPT ![job.reminder_id] = IF ok THEN @ + 1 ELSE @]
    /\ early' = IF job.reminder_id \in DOMAIN store
                    /\ now < store[job.reminder_id].reminder_date
                 THEN early \cup {job.reminder_id}
                 ELSE early

\* history of a direct call: its arguments, what it returned (ok, rows), the
\* outcome of its commit and the Store before it
Called(op, id, arg, ok, rows, commit) ==
    last' = [op |-> op, id |-> id, arg |-> arg, ok |-> ok, rows |-> rows,
             commit |-> commit, before |-> store]

\* ------------------------------------------------------- request handlers
\* the replies of _handle_reminder_creation
REPLY_CREATED == "Lembrete criado com sucesso!"
REPLY_NOT_SCHEDULED == "Lembrete criado, mas houve problema ao agendar. Verifique em /lembretes"
REPLY_ERROR == "Erro ao criar lembrete. Tente novamente."

\* uuid.uuid4(): a value the process has not drawn for a reminder that is
\* still stored or still armed
FreshUuid(uuid) ==
    /\ \A i \in DOMAIN store : store[i].job_id.uuid # uuid
    /\ \A j \in timers : j.name.uuid # uuid

\* ConversationHandlers._handle_reminder_creation, from the resolved instant
\* on; the history keeps the reminder's id (0 for None), whether it was
\* scheduled, and the reply sent to the user
HandleReminderCreation(telegram_id, reminder_datetime, uuid, commit_ok, run_once_ok) ==
    /\ Idle
    /\ get_user_by_telegram_id(users, telegram_id) # 0
    /\ nextId <= MaxReminders
    /\ FreshUuid(uuid)
    /\ now + FLOOR_DELAY <= EndOfTime    \* the armed timer fits the clock
    /\ ~run_once_ok => sweepAt <= EndOfTime    \* and so does the next check
    /\ LET c == create_reminder(store, users, nextId, telegram_id,
                                reminder_datetime, uuid, commit_ok)
           s == schedule_reminder(timers, users, c.ret, c.db[c.ret], now, run_once_ok)
       IN  /\ store' = c.db
           /\ IF c.ret = 0
              THEN /\ UNCHANGED <<nextId, timers>>
                   /\ Called("_handle_reminder_creation", 0, telegram_id, FALSE,
                             <<REPLY_ERROR>>, commit_ok)
              ELSE /\ nextId' = nextId + 1
                   /\ timers' = s.jobs
                   /\ Called("_handle_reminder_creation", c.ret, telegram_id, s.ret,
                             <<IF s.ret THEN REPLY_CREATED ELSE REPLY_NOT_SCHEDULED>>,
                             commit_ok)
    /\ sessions' = SessionExit(SessionEnter(sessions))
    /\ UNCHANGED <<now, up, users, sweepAt, pc, job, queue,
                   attempts, successes, early, crashes, crashSeen, boot, tick>>

\* ConversationHandlers._handle_complete_reminder, reached from
\* handle_callback_query with the id in the button's data and the id of the
\* telegram user who pressed it, which it does not use
HandleCompleteReminder(reminder_id, telegram_id, commit_ok) ==
    /\ Idle
    /\ store' = mark_reminder_as_completed(store, reminder_id, commit_ok).db
    /\ sessions' = SessionExit(SessionEnter(sessions))
    /\ UNCHANGED <<now, up, users, nextId, timers, sweepAt, pc, job, queue,
                   attempts, successes, early, crashes, crashSeen, boot, tick, last>>

\* ConversationHandlers._handle_delete_reminder
HandleDeleteReminder(reminder_id, telegram_id, commit_ok) ==
    /\ Idle
    /\ get_user_by_telegram_id(users, telegram_id) # 0
    /\ store' = delete_reminder(store, users, reminder_id, telegram_id, commit_ok).db
    /\ sessions' = SessionExit(SessionEnter(sessions))
    /\ UNCHANGED <<now, up, users, nextId, timers, sweepAt, pc, job, queue,
                   attempts, successes, early, crashes, crashSeen, boot, tick, last>>

\* variant: the fire reads is_completed first and drops the job of a
\* completed reminder without marking or sending
SendReminderCallbackMark_checks(j, commit_ok) ==
    /\ Idle
    /\ j \in timers
    /\ j.at <= now
    /\ timers' = timers \ {j}
    /\ IF j.data.reminder_id \in DOMAIN store /\ store[j.data.reminder_id].is_completed
       THEN UNCHANGED <<store, job, pc>>
       ELSE /\ store' = mark_reminder_as_sent(store, j.data.reminder_id, commit_ok).db
            /\ job' = j.data
            /\ pc' = "send"
    /\ sessions' = SessionExit(SessionEnter(sessions))
    /\ UNCHANGED <<now, up, users, nextId, sweepAt, queue,
                   attempts, successes, early, crashes, crashSeen, boot, tick, last>>

\* ------------------------------------------------------ job-queue callbacks
\* _send_reminder_callback, up to the send: the queue takes the due job j out
\* and runs the callback, which first marks the reminder as sent
SendReminderCallbackMark(j, commit_ok) ==
    /\ Idle
    /\ j \in timers
    /\ j.at <= now
    /\ timers' = timers \ {j}
    /\ store' = mark_reminder_as_sent(store, j.data.reminder_id, commit_ok).db
    /\ job' = j.data
    /\ pc' = "send"
    /\ sessions' = SessionExit(SessionEnter(sessions))
    /\ UNCHANGED <<now, up, users, nextId, sweepAt, queue,
                   attempts, successes, early, crashes, crashSeen, boot, tick, last>>

\* _send_reminder_callback, the send: an exception is logged and swallowed
SendReminderCallbackSend(ok) ==
    /\ up
    /\ pc = "send"
    /\ send_message(ok)
    /\ job' = NoJob
    /\ pc' = "idle"
    /\ UNCHANGED <<sessions, now, up, users, store, nextId, timers, sweepAt, queue,
                   crashes, crashSeen, boot, tick, last>>

\* history: the stored reminders that are overdue, unsent, uncompleted and
\* have no armed timer of their job_id
OverdueUnsentUnarmed ==
    {i \in DOMAIN store :
        /\ store[i].reminder_date <= now
        /\ ~store[i].is_sent
        /\ ~store[i].is_completed
        /\ ~\E j \in timers : j.name = store[i].job_id}

\* _check_pending_reminders_callback, the query: the periodic job is due
CheckPendingQuery ==
    /\ Idle
    /\ sweepAt <= now
    /\ sweepAt' = sweepAt + INTERVAL
    /\ \E rows \in get_pending_reminders(store, now, now) :
          queue' = [k \in DOMAIN rows |->
                       [reminder_id |-> rows[k],
                        job_id |-> store[rows[k]].job_id,
                        user_telegram_id |-> TelegramOf(users, store[rows[k]].user_id)]]
    /\ tick' = [elig |-> OverdueUnsentUnarmed,
                count |-> [i \in DOMAIN attempts |-> 0]]
    /\ pc' = "check"
    /\ sessions' = SessionEnter(sessions)
    /\ UNCHANGED <<now, up, users, store, nextId, timers, job,
                   attempts, successes, early, crashes, crashSeen, boot, last>>

\* _check_pending_reminders_callback, one turn of the loop, and
\* _send_reminder_callback_direct up to the send
CheckPendingVisit(commit_ok) ==
    /\ up
    /\ pc = "check"
    /\ queue # <<>>
    /\ LET reminder == Head(queue)
       IN  IF get_jobs_by_name(timers, reminder.job_id) = {}
           THEN /\ store' = mark_reminder_as_sent(store, reminder.reminder_id, commit_ok).db
                /\ job' = [reminder_id |-> reminder.reminder_id,
                           user_telegram_id |-> reminder.user_telegram_id]
                /\ pc' = "direct"
                /\ sessions' = SessionExit(SessionEnter(sessions))
           ELSE UNCHANGED <<store, job, pc, sessions>>
    /\ queue' = Tail(queue)
    /\ UNCHANGED <<now, up, users, nextId, timers, sweepAt,
                   attempts, successes, early, crashes, crashSeen, boot, tick, last>>

\* variant: an exception of the send ends the loop of the check
SendReminderDirectSend_aborts(ok) ==
    /\ up
    /\ pc = "direct"
    /\ send_message(ok)
    /\ tick' = [tick EXCEPT !.count[job.reminder_id] = @ + 1]
    /\ job' = NoJob
    /\ pc' = "check"
    /\ queue' = IF ok THEN queue ELSE <<>>
    /\ UNCHANGED <<sessions, now, up, users, store, nextId, timers, sweepAt,
                   crashes, crashSeen, boot, last>>

\* _send_reminder_callback_direct, the send: an exception is logged and swallowed
SendReminderDirectSend(ok) ==
    /\ up
    /\ pc = "direct"
    /\ send_message(ok)
    /\ tick' = [tick EXCEPT !.count[job.reminder_id] = @ + 1]
    /\ job' = NoJob
    /\ pc' = "check"
    /\ UNCHANGED <<sessions, now, up, users, store, nextId, timers, sweepAt, queue,
                   crashes, crashSeen, boot, last>>

\* _check_pending_reminders_callback returns
CheckPendingReturn ==
    /\ up
    /\ pc = "check"
    /\ queue = <<>>
    /\ pc' = "idle"
    /\ sessions' = SessionExit(sessions)
    /\ UNCHANGED <<now, up, users, store, nextId, timers, sweepAt, job, queue,
                   attempts, successes, early, crashes, crashSeen, boot, tick, last>>

\* ------------------------------------------------------ process and clock
\* the process dies: the job queue and the running callback are lost
Crash ==
    /\ up
    /\ crashes < MaxCrashes
    /\ up' = FALSE
    /\ timers' = {}
    /\ sweepAt' = 0
    /\ pc' = "idle"
    /\ job' = NoJob
    /\ queue' = <<>>
    /\ crashes' = crashes + 1
    /\ crashSeen' = [i \in DOMAIN crashSeen |->
                        IF i \notin DOMAIN store THEN crashSeen[i]
                        ELSE IF store[i].reminder_date <= now THEN 2
                        ELSE IF crashSeen[i] = 0 THEN 1 ELSE crashSeen[i]]
    /\ sessions' = 0
    /\ UNCHANGED <<now, users, store, nextId, attempts, successes, early, boot, tick, last>>

\* SaraBot.initialize on a new process: schedule_periodic_check, then
\* reschedule_all_pending_reminders
Initialize ==
    /\ ~up
    /\ up' = TRUE
    /\ sweepAt' = now + FIRST_RUN
    /\ timers' = reschedule_all_pending_reminders({}, users, store, now)
    /\ boot' = [at |-> now, overdue |-> PendingIds(store, now, now)]
    /\ sessions' = SessionExit(SessionEnter(sessions))
    /\ UNCHANGED <<now, users, store, nextId, pc, job, queue,
                   attempts, successes, early, crashes, crashSeen, tick, last>>

\* time passes; while the process is up no due job is left waiting, and a
\* dead process is started early enough for its first check to fit the clock
Tick ==
    /\ now < EndOfTime
    /\ up => /\ pc = "idle"
             /\ sweepAt > now
             /\ \A j \in timers : j.at > now
    /\ ~up => now + Unit + FIRST_RUN <= EndOfTime
    /\ now' = now + Unit
    /\ UNCHANGED <<sessions, up, users, store, nextId, timers, sweepAt, pc, job, queue,
                   attempts, successes, early, crashes, crashSeen, boot, tick, last>>

\* ---------------------------------------------------------- specifications
\* one step, with the outcomes the environment may give: of send_message
\* (sink), of a commit (commit) and of run_once (run_once)
Step(sink, commit, run_once) ==
    \/ \E t \in TelegramIds, d \in DueTimes, u \in Uuids, c \in commit, r \in run_once :
          HandleReminderCreation(t, d, u, c, r)
    \/ \E i \in ReminderIds, t \in TelegramIds, c \in commit :
          HandleCompleteReminder(i, t, c)
    \/ \E i \in ReminderIds, t \in TelegramIds, c \in commit :
          HandleDeleteReminder(i, t, c)
    \/ \E j \in timers, c \in commit : SendReminderCallbackMark(j, c)
    \/ \E ok \in sink : SendReminderCallbackSend(ok)
    \/ CheckPendingQuery
    \/ \E c \in commit : CheckPendingVisit(c)
    \/ \E ok \in sink : SendReminderDirectSend(ok)
    \/ CheckPendingReturn
    \/ Crash
    \/ Initialize
    \/ Tick

\* the Store and the job queue work; the Delivery Sink may fail
Next == Step(BOOLEAN, {TRUE}, {TRUE})

Spec == Init /\ [][Next]_vars

\* the Store, the job queue and the Delivery Sink all work
NextSinkOk == Step({TRUE}, {TRUE}, {TRUE})

SpecSinkOk == Init /\ [][NextSinkOk]_vars

\* the job queue runs its due jobs, a callback runs to its end unless the
\* process dies, a dead process is started again, and time passes
Fairness ==
    /\ WF_vars(\E j \in timers : SendReminderCallbackMark(j, TRUE))
    /\ WF_vars(\E ok \in BOOLEAN : SendReminderCallbackSend(ok))
    /\ WF_vars(CheckPendingQuery)
    /\ WF_vars(CheckPendingVisit(TRUE))
    /\ WF_vars(\E ok \in BOOLEAN : SendReminderDirectSend(ok))
    /\ WF_vars(CheckPendingReturn)
    /\ WF_vars(Initialize)
    /\ WF_vars(Tick)

FairSpec == Init /\ [][Next]_vars /\ Fairness

\* the Delivery Sink, a commit and run_once may each fail
NextFail == Step(BOOLEAN, BOOLEAN, BOOLEAN)

SpecFail == Init /\ [][NextFail]_vars

\* the Store and the Delivery Sink work; run_once may fail
NextDegraded == Step({TRUE}, {TRUE}, BOOLEAN)

FairSpecDegraded == Init /\ [][NextDegraded]_vars /\ Fairness

\* reminder dates of a database left by an earlier run: before the start, less
\* than the first periodic check after it, beyond that check
BootDates == {0, Unit, 3 * Unit}

\* the databases an earlier run may have left: empty, or one reminder
BootStores ==
    {<<>>} \cup
    {[i \in {1} |-> [user_id |-> 1, reminder_date |-> d, is_sent |-> s,
                     is_completed |-> c,
                     job_id |-> [uuid |-> "3f2a9c1e", user_id |-> 1]]] :
        d \in BootDates, s \in BOOLEAN, c \in BOOLEAN}

\* the process is about to start on a database an earlier run left
InitBoot ==
    /\ now = 0
    /\ up = FALSE
    /\ users = [u \in {1, 2} |->
                   [telegram_id |-> 100 + u, username |-> "ana",
                    first_name |-> "Ana", last_name |-> "Lima"]]
    /\ store \in BootStores
    /\ nextId = Cardinality(DOMAIN store) + 1
    /\ timers = {}
    /\ sweepAt = 0
    /\ pc = "idle"
    /\ job = NoJob
    /\ queue = <<>>
    /\ sessions = 0
    /\ attempts = [i \in ReminderIds |-> 0]
    /\ successes = [i \in ReminderIds |-> 0]
    /\ early = {}
    /\ crashes = 0
    /\ crashSeen = [i \in ReminderIds |-> 0]
    /\ boot = [at |-> 0, overdue |-> {}]
    /\ tick = [elig |-> {}, count |-> [i \in ReminderIds |-> 0]]
    /\ last = NoCall

SpecBoot == InitBoot /\ [][Next]_vars

\* the ids of the reminders an earlier run may have left for one check
BatchIds == 1..MaxRows

\* the databases an earlier run may have left: up to MaxRows pending reminders
\* of the two users, due before the start or FIRST_RUN after it
BatchStores ==
    UNION {[1..n -> [user_id : {1, 2}, reminder_date : {0, Unit},
                     is_sent : {FALSE}, is_completed : {FALSE},
                     job_id : [uuid : Uuids, user_id : {1, 2}]]] : n \in 0..MaxRows}

\* the process is about to start on a database an earlier run left; a job_id
\* ends in the id of the reminder's user and no two reminders share one
InitSweep ==
    /\ now = 0
    /\ up = FALSE
    /\ users = [u \in {1, 2} |->
                   [telegram_id |-> 100 + u, username |-> "ana",
                    first_name |-> "Ana", last_name |-> "Lima"]]
    /\ store \in BatchStores
    /\ \A i \in DOMAIN store :
          /\ store[i].job_id.user_id = store[i].user_id
          /\ store[i].job_id.uuid = (IF i <= 2 THEN "3f2a9c1e" ELSE "b07d44aa")
          /\ store[i].user_id = ((i - 1) % 2) + 1
    /\ nextId = Cardinality(DOMAIN store) + 1
    /\ timers = {}
    /\ sweepAt = 0
    /\ pc = "idle"
    /\ job = NoJob
    /\ queue = <<>>
    /\ sessions = 0
    /\ attempts = [i \in BatchIds |-> 0]
    /\ successes = [i \in BatchIds |-> 0]
    /\ early = {}
    /\ crashes = 0
    /\ crashSeen = [i \in BatchIds |-> 0]
    /\ boot = [at |-> 0, overdue |-> {}]
    /\ tick = [elig |-> {}, count |-> [i \in BatchIds |-> 0]]
    /\ last = NoCall

\* the Delivery Sink, a commit and run_once may each fail
SpecSweep == InitSweep /\ [][NextFail]_vars

\* ------------------------------------------- ReminderService called directly
CallCreateReminder(telegram_id, reminder_date, uuid, commit_ok) ==
    /\ nextId <= MaxRows
    /\ LET c == create_reminder(store, users, nextId, telegram_id,
                                reminder_date, uuid, commit_ok)
       IN  /\ store' = c.db
           /\ nextId' = IF c.ret = 0 THEN nextId ELSE nextId + 1
           /\ Called("create_reminder", c.ret, telegram_id, c.ret # 0, <<>>, commit_ok)
    /\ UNCHANGED <<sessions, now, up, users, timers, sweepAt, pc, job, queue, attempts,
                   successes, early, crashes, crashSeen, boot, tick>>

CallMarkSent(reminder_id, commit_ok) ==
    /\ LET m == mark_reminder_as_sent(store, reminder_id, commit_ok)
       IN  /\ store' = m.db
           /\ Called("mark_reminder_as_sent", reminder_id, 0, m.ret, <<>>, commit_ok)
    /\ UNCHANGED <<sessions, now, up, users, nextId, timers, sweepAt, pc, job, queue, attempts,
                   successes, early, crashes, crashSeen, boot, tick>>

CallMarkCompleted(reminder_id, commit_ok) ==
    /\ LET m == mark_reminder_as_completed(store, reminder_id, commit_ok)
       IN  /\ store' = m.db
           /\ Called("mark_reminder_as_completed", reminder_id, 0, m.ret, <<>>, commit_ok)
    /\ UNCHANGED <<sessions, now, up, users, nextId, timers, sweepAt, pc, job, queue, attempts,
                   successes, early, crashes, crashSeen, boot, tick>>

\* variant: completes a reminder of the calling user only, as delete_reminder does
CallCompleteReminder_owner(reminder_id, telegram_id, commit_ok) ==
    /\ LET mine == /\ reminder_id \in DOMAIN store
                   /\ store[reminder_id].user_id = get_user_by_telegram_id(users, telegram_id)
           m == IF mine
                THEN mark_reminder_as_completed(store, reminder_id, commit_ok)
                ELSE [db |-> store, ret |-> FALSE]
       IN  /\ store' = m.db
           /\ Called("_handle_complete_reminder", reminder_id, telegram_id, m.ret,
                     <<>>, commit_ok)
    /\ UNCHANGED <<sessions, now, up, users, nextId, timers, sweepAt, pc, job, queue, attempts,
                   successes, early, crashes, crashSeen, boot, tick>>

\* _handle_complete_reminder called with the id in the button's data and the
\* id of the telegram user who pressed it; the history keeps both and what
\* mark_reminder_as_completed returned
CallCompleteReminder(reminder_id, telegram_id, commit_ok) ==
    /\ LET m == mark_reminder_as_completed(store, reminder_id, commit_ok)
       IN  /\ store' = m.db
           /\ Called("_handle_complete_reminder", reminder_id, telegram_id, m.ret,
                     <<>>, commit_ok)
    /\ UNCHANGED <<sessions, now, up, users, nextId, timers, sweepAt, pc, job, queue, attempts,
                   successes, early, crashes, crashSeen, boot, tick>>

CallDeleteReminder(reminder_id, telegram_id, commit_ok) ==
    /\ LET m == delete_reminder(store, users, reminder_id, telegram_id, commit_ok)
       IN  /\ store' = m.db
           /\ Called("delete_reminder", reminder_id, telegram_id, m.ret, <<>>, commit_ok)
    /\ UNCHANGED <<sessions, now, up, users, nextId, timers, sweepAt, pc, job, queue, attempts,
                   successes, early, crashes, crashSeen, boot, tick>>

CallGetPending(limit_date) ==
    /\ \E rows \in get_pending_reminders(store, limit_date, now) :
          Called("get_pending_reminders", 0, limit_date, TRUE, rows, TRUE)
    /\ UNCHANGED <<sessions, now, up, users, store, nextId, timers, sweepAt, pc, job, queue,
                   attempts, successes, early, crashes, crashSeen, boot, tick>>

CallGetUserReminders(telegram_id, include_completed) ==
    /\ \E rows \in get_user_reminders(store, users, telegram_id, include_completed) :
          Called("get_user_reminders", 0,
                 [telegram_id |-> telegram_id, include_completed |-> include_completed],
                 TRUE, rows, TRUE)
    /\ UNCHANGED <<sessions, now, up, users, store, nextId, timers, sweepAt, pc, job, queue,
                   attempts, successes, early, crashes, crashSeen, boot, tick>>

\* one direct call, with the outcomes a commit may have
StoreStep(commit) ==
    \/ \E t \in TelegramIds, d \in DueTimes \cup {2 * Unit}, u \in Uuids, c \in commit :
          CallCreateReminder(t, d, u, c)
    \/ \E i \in 1..(MaxRows + 1), c \in commit : CallMarkSent(i, c)
    \/ \E i \in 1..(MaxRows + 1), c \in commit : CallMarkCompleted(i, c)
    \/ \E i \in 1..(MaxRows + 1), t \in TelegramIds, c \in commit :
          CallCompleteReminder(i, t, c)
    \/ \E i \in 1..(MaxRows + 1), t \in TelegramIds, c \in commit :
          CallDeleteReminder(i, t, c)
    \/ \E d \in DueTimes \cup {NoneDate} : CallGetPending(d)
    \/ \E t \in TelegramIds, b \in BOOLEAN : CallGetUserReminders(t, b)

\* every commit succeeds
NextStore == StoreStep({TRUE})

SpecStore == Init /\ [][NextStore]_vars

\* a commit may fail (the database raises, the call rolls back)
NextStoreFail == StoreStep(BOOLEAN)

SpecStoreFail == Init /\ [][NextStoreFail]_vars

\* --------------------------------------- get_reminder_statistics called
\* the call reads the clock for the pending count and again, elapsed later,
\* for the overdue count; the history keeps the user and both readings
CallGetReminderStatistics(telegram_id, elapsed) ==
    /\ now + elapsed <= EndOfTime
    /\ now' = now + elapsed
    /\ LET m == get_reminder_statistics(store, users, telegram_id, now, now')
       IN  Called("get_reminder_statistics", 0,
                  [telegram_id |-> telegram_id, now_pending |-> now,
                   now_overdue |-> now'],
                  m.ok, m.stats, TRUE)
    /\ UNCHANGED <<sessions, up, users, store, nextId, timers, sweepAt, pc, job, queue,
                   attempts, successes, early, crashes, crashSeen, boot, tick>>

\* the due instants of the stored reminders: at the start of the clock and
\* one and two minutes after it
StatDates == {0, Unit, 2 * Unit}

\* the databases the calls of the handlers may have left: up to MaxRows
\* reminders of the two users, sent or not, completed or not
StatStores ==
    UNION {[1..n -> [user_id : {1, 2}, reminder_date : StatDates,
                     is_sent : BOOLEAN, is_completed : BOOLEAN,
                     job_id : [uuid : Uuids, user_id : {1, 2}]]] : n \in 0..MaxRows}

\* the bot is running on such a database; a job_id ends in the id of the
\* reminder's user and no two reminders share one
InitStats ==
    /\ now = 0
    /\ up = TRUE
    /\ users = [u \in {1, 2} |->
                   [telegram_id |-> 100 + u, username |-> "ana",
                    first_name |-> "Ana", last_name |-> "Lima"]]
    /\ store \in StatStores
    /\ \A i \in DOMAIN store :
          /\ store[i].job_id.user_id = store[i].user_id
          /\ store[i].job_id.uuid = (IF i <= 2 THEN "3f2a9c1e" ELSE "b07d44aa")
    /\ nextId = Cardinality(DOMAIN store) + 1
    /\ timers = {}
    /\ sweepAt = FIRST_RUN
    /\ pc = "idle"
    /\ job = NoJob
    /\ queue = <<>>
    /\ sessions = 0
    /\ attempts = [i \in BatchIds |-> 0]
    /\ successes = [i \in BatchIds |-> 0]
    /\ early = {}
    /\ crashes = 0
    /\ crashSeen = [i \in BatchIds |-> 0]
    /\ boot = [at |-> 0, overdue |-> {}]
    /\ tick = [elig |-> {}, count |-> [i \in BatchIds |-> 0]]
    /\ last = NoCall

NextStats ==
    \E t \in TelegramIds, e \in {0, Unit} : CallGetReminderStatistics(t, e)

SpecStats == InitStats /\ [][NextStats]_vars

\* --------------------------------------------- UserService called directly
\* the telegram users an update may carry
TelegramUsers ==
    [id : TelegramIds, username : {"ana", "bob"}, first_name : {"Ana", "Bob"},
     last_name : {"Lima", "Reis"}]

\* a fresh database: no user yet
InitUsers ==
    /\ now = 0
    /\ up = TRUE
    /\ users = <<>>
    /\ store = <<>>
    /\ nextId = 1
    /\ timers = {}
    /\ sweepAt = FIRST_RUN
    /\ pc = "idle"
    /\ job = NoJob
    /\ queue = <<>>
    /\ sessions = 0
    /\ attempts = [i \in ReminderIds |-> 0]
    /\ successes = [i \in ReminderIds |-> 0]
    /\ early = {}
    /\ crashes = 0
    /\ crashSeen = [i \in ReminderIds |-> 0]
    /\ boot = [at |-> 0, overdue |-> {}]
    /\ tick = [elig |-> {}, count |-> [i \in ReminderIds |-> 0]]
    /\ last = NoCall

\* one call of get_or_create_user, as the handlers make it: the calls are
\* synchronous code inside handlers the application runs one at a time, so
\* a call runs from its query to its commit before the next one starts
CallGetOrCreateUser(telegram_user) ==
    /\ Idle
    /\ LET g == get_or_create_user(users, telegram_user)
       IN  /\ Cardinality(DOMAIN g.db) <= MaxUsers
           /\ users' = g.db
           /\ last' = [op |-> "get_or_create_user", id |-> g.ret,
                       arg |-> telegram_user, ok |-> TRUE, rows |-> <<>>,
                       commit |-> TRUE, before |-> users]
    /\ UNCHANGED <<sessions, now, up, store, nextId, timers, sweepAt, pc, job, queue,
                   attempts, successes, early, crashes, crashSeen, boot, tick>>

NextUsers == \E telegram_user \in TelegramUsers : CallGetOrCreateUser(telegram_user)

SpecUsers == InitUsers /\ [][NextUsers]_vars

\* ------------------------------------------ SchedulerService called directly
\* reminder dates around the instant of the calls (now = 0): past, now, less
\* than the floor ahead, the floor ahead, at the rearm horizon, beyond it
SchedDates == {0 - Unit, 0, Unit \div 2, Unit, Horizon, Horizon + Unit}

\* the job ids of user 101's reminders
SchedJobIds == {[uuid |-> u, user_id |-> 1] : u \in Uuids}

CallScheduleReminder(reminder_id, run_once_ok) ==
    /\ reminder_id \in DOMAIN store
    /\ Cardinality(get_jobs_by_name(timers, store[reminder_id].job_id)) < MaxArmed
    /\ LET s == schedule_reminder(timers, users, reminder_id, store[reminder_id],
                                  now, run_once_ok)
       IN  /\ timers' = s.jobs
           /\ Called("schedule_reminder", reminder_id, 0, s.ret, <<>>, TRUE)
    /\ UNCHANGED <<sessions, now, up, users, store, nextId, sweepAt, pc, job, queue, attempts,
                   successes, early, crashes, crashSeen, boot, tick>>

\* cancel_reminder(job_id); the history keeps in id the number of jobs that
\* were armed under job_id
CallCancelReminder(job_id) ==
    /\ LET c == cancel_reminder(timers, job_id)
       IN  /\ timers' = c.jobs
           /\ Called("cancel_reminder", Cardinality({j \in timers : j.name = job_id}),
                     job_id, c.ret, <<>>, TRUE)
    /\ UNCHANGED <<sessions, now, up, users, store, nextId, sweepAt, pc, job, queue, attempts,
                   successes, early, crashes, crashSeen, boot, tick>>

\* reschedule_all_pending_reminders as SaraBot.initialize calls it, on the
\* empty job queue of a new process
CallRescheduleAll ==
    /\ timers' = reschedule_all_pending_reminders({}, users, store, now)
    /\ Called("reschedule_all_pending_reminders", 0, 0, TRUE, <<>>, TRUE)
    /\ UNCHANGED <<sessions, now, up, users, store, nextId, sweepAt, pc, job, queue, attempts,
                   successes, early, crashes, crashSeen, boot, tick>>

\* get_scheduled_jobs_count as the status and admin commands call it on the
\* running bot; the history keeps the count in rows
CallGetScheduledJobsCount ==
    /\ up
    /\ Called("get_scheduled_jobs_count", 0, 0, TRUE,
              get_scheduled_jobs_count(timers, sweepAt), TRUE)
    /\ UNCHANGED <<sessions, now, up, users, store, nextId, timers, sweepAt, pc, job, queue,
                   attempts, successes, early, crashes, crashSeen, boot, tick>>

NextSched ==
    \/ \E d \in SchedDates, u \in Uuids : CallCreateReminder(101, d, u, TRUE)
    \/ \E i \in DOMAIN store : CallMarkSent(i, TRUE)
    \/ \E i \in DOMAIN store : CallMarkCompleted(i, TRUE)
    \/ \E i \in DOMAIN store : CallScheduleReminder(i, TRUE)
    \/ \E n \in SchedJobIds : CallCancelReminder(n)
    \/ CallRescheduleAll
    \/ CallGetScheduledJobsCount

SpecSched == Init /\ [][NextSched]_vars

\* --------------------------------------- ReminderService.parse_reminder_data
\* Instants are seconds since 2024-02-29T00:00Z, so that day d is March d, 2024.
\* A time string is the sequence of its characters; a date string is a word.
Day == 24 * 3600
Hour == 3600
Minute == 60
DEFAULT_HOUR == 9     \* hour, minute = 9, 0
DEFAULT_MINUTE == 0

Digits == <<"0", "1", "2", "3", "4", "5", "6", "7", "8", "9">>

IsDigit(c) == \E i \in DOMAIN Digits : Digits[i] = c

DigitValue(c) == (CHOOSE i \in DOMAIN Digits : Digits[i] = c) - 1

RECURSIVE DigitsValue(_)
DigitsValue(s) ==
    IF s = <<>>
    THEN 0
    ELSE 10 * DigitsValue(SubSeq(s, 1, Len(s) - 1)) + DigitValue(s[Len(s)])

IsNumeral(s) == Len(s) >= 1 /\ \A i \in DOMAIN s : IsDigit(s[i])

\* int(s) over the characters 0-9, "-", ":" and letters: the value, or
\* ok = FALSE where int raises ValueError
int(s) ==
    IF IsNumeral(s)
    THEN [ok |-> TRUE, val |-> DigitsValue(s)]
    ELSE IF s # <<>> /\ s[1] = "-" /\ IsNumeral(Tail(s))
         THEN [ok |-> TRUE, val |-> 0 - DigitsValue(Tail(s))]
         ELSE [ok |-> FALSE, val |-> 0]

\* time_str.split(":")
RECURSIVE split(_)
split(s) ==
    IF \E i \in DOMAIN s : s[i] = ":"
    THEN LET k == CHOOSE i \in DOMAIN s :
                      s[i] = ":" /\ \A l \in 1..(i - 1) : s[l] # ":"
         IN  <<SubSeq(s, 1, k - 1)>> \o split(SubSeq(s, k + 1, Len(s)))
    ELSE <<s>>

\* the hour and minute read from time_str (lines 173-186)
HourMinute(time_str) ==
    IF time_str # <<>>
    THEN LET time_parts == split(time_str)
         IN  IF Len(time_parts) >= 2
             THEN IF int(time_parts[1]).ok /\ int(time_parts[2]).ok
                  THEN [hour |-> int(time_parts[1]).val,
                        minute |-> int(time_parts[2]).val]
                  ELSE [hour |-> DEFAULT_HOUR, minute |-> DEFAULT_MINUTE]
             ELSE IF int(time_str).ok
                  THEN [hour |-> int(time_str).val, minute |-> 0]
                  ELSE [hour |-> DEFAULT_HOUR, minute |-> DEFAULT_MINUTE]
    ELSE [hour |-> DEFAULT_HOUR, minute |-> DEFAULT_MINUTE]

\* datetime.min.time().replace(hour=hour, minute=minute) does not raise
TimeReplaceOk(hour, minute) == hour \in 0..23 /\ minute \in 0..59

\* pytz.timezone(user_timezone): the zone's standard offset from UTC; a name
\* outside the table raises UnknownTimeZoneError
UtcOffset ==
    [z \in {"America/Sao_Paulo", "UTC", "Asia/Tokyo", "America/New_York"} |->
        IF z = "America/Sao_Paulo" THEN 0 - 3 * Hour
        ELSE IF z = "UTC" THEN 0
        ELSE IF z = "Asia/Tokyo" THEN 9 * Hour
        ELSE 0 - 5 * Hour]

\* the zones with daylight saving time: the UTC instant at which it starts
\* (America/New_York: 2024-03-10T07:00Z, 02:00 EST becomes 03:00 EDT)
DstStart == [z \in {"America/New_York"} |-> 10 * Day + 7 * Hour]

\* the zone's utcoffset at the UTC instant utc
OffsetAt(z, utc) ==
    IF z \in DOMAIN DstStart /\ utc >= DstStart[z]
    THEN UtcOffset[z] + Hour
    ELSE UtcOffset[z]

\* tz.localize(naive) with the default is_dst=False: the offset given to the
\* wall time; a wall time that exists once gets the offset in effect then, one
\* inside the gap of a transition (or ambiguous) gets the standard offset
LocalizeOffset(z, wall) ==
    LET possible == {o \in {UtcOffset[z], UtcOffset[z] + Hour} :
                        OffsetAt(z, wall - o) = o}
    IN  IF Cardinality(possible) = 1
        THEN CHOOSE o \in possible : TRUE
        ELSE UtcOffset[z]

\* reminder.reminder_date.astimezone(tz): the wall time of the UTC instant
astimezone(utc, z) == utc + OffsetAt(z, utc)

\* local_date.strftime("%d/%m/%Y às %H:%M"): the date and HH:MM of a wall time
strftime(wall) ==
    [day |-> wall \div Day,
     hour |-> (wall % Day) \div Hour,
     minute |-> (wall % Hour) \div Minute]

\* date_str.lower()
lower(date_str) ==
    IF date_str = "Hoje" THEN "hoje"
    ELSE IF date_str = "Tomorrow" THEN "tomorrow"
    ELSE date_str

\* dateutil's parse(date_str, default=now).date(): the day, or ok = FALSE where
\* parse raises (a string that holds no date)
parse_date(date_str) ==
    IF date_str = "2024-03-05"
    THEN [ok |-> TRUE, day |-> 5]
    ELSE IF date_str = "2024-03-10"
         THEN [ok |-> TRUE, day |-> 10]
         ELSE [ok |-> FALSE, day |-> 0]

\* target_date (lines 159-171); local_now is datetime.now(tz) as wall-clock seconds
\* variant: a string that holds no date resolves to the day after today
TargetDate_tomorrow(date_str, local_now) ==
    IF lower(date_str) \in {"hoje", "today"}
    THEN local_now \div Day
    ELSE IF lower(date_str) \in {"amanhã", "amanha", "tomorrow"}
         THEN (local_now + Day) \div Day
         ELSE IF parse_date(date_str).ok
              THEN parse_date(date_str).day
              ELSE (local_now + Day) \div Day

TargetDate(date_str, local_now) ==
    IF lower(date_str) \in {"hoje", "today"}
    THEN local_now \div Day
    ELSE IF lower(date_str) \in {"amanhã", "amanha", "tomorrow"}
         THEN (local_now + Day) \div Day
         ELSE IF parse_date(date_str).ok
              THEN parse_date(date_str).day
              ELSE local_now \div Day

\* variant: the offset is added
LocalToUtc_added(wall, offset) == wall + offset

\* tz.localize(naive).astimezone(pytz.UTC)
LocalToUtc(wall, offset) == wall - offset

\* parse_reminder_data: ok = FALSE for None
parse_reminder_data(reminder_data, user_timezone, utcnow) ==
    IF user_timezone \notin DOMAIN UtcOffset
    THEN [ok |-> FALSE, dt |-> 0]
    ELSE LET local_now == utcnow + OffsetAt(user_timezone, utcnow)
             target_date == TargetDate(reminder_data.date, local_now)
             hm == HourMinute(reminder_data.time)
             wall == target_date * Day + hm.hour * Hour + hm.minute * Minute
         IN  IF TimeReplaceOk(hm.hour, hm.minute)
             THEN [ok |-> TRUE,
                   dt |-> LocalToUtc(wall, LocalizeOffset(user_timezone, wall))]
             ELSE [ok |-> FALSE, dt |-> 0]

\* the inputs of the calls
DateTokens == {"hoje", "Hoje", "today", "amanhã", "amanha", "Tomorrow",
               "2024-03-05", "2024-03-10", "depois", ""}

TimeTokens ==
    {<<>>,
     <<"1", "4", ":", "0", "0">>,
     <<"2", "3", ":", "5", "9">>,
     <<"0", ":", "0">>,
     <<"2", ":", "3", "0">>,
     <<"7">>,
     <<"1", "4", ":", "0", "0", ":", "3", "0">>,
     <<"x">>,
     <<"1", "4", ":", "x", "x">>,
     <<":", "3", "0">>,
     <<"2", "5", ":", "9", "9">>,
     <<"2", "4", ":", "0", "0">>,
     <<"1", "2", ":", "6", "0">>,
     <<"-", "1", ":", "0", "0">>,
     <<"3", "0">>}

Timezones == DOMAIN UtcOffset \cup {"Mars/Phobos"}

\* datetime.now: March 1 13:00Z (10:00 in Sao Paulo), March 2 01:00Z (the
\* evening of March 1 in Sao Paulo), March 2 20:00Z (March 3 in Tokyo)
ParseNows == {Day + 13 * Hour, 2 * Day + Hour, 2 * Day + 20 * Hour}

InitParse ==
    /\ now \in ParseNows
    /\ up = TRUE
    /\ users = [u \in {1, 2} |->
                   [telegram_id |-> 100 + u, username |-> "ana",
                    first_name |-> "Ana", last_name |-> "Lima"]]
    /\ store = <<>>
    /\ nextId = 1
    /\ timers = {}
    /\ sweepAt = now + FIRST_RUN
    /\ pc = "idle"
    /\ job = NoJob
    /\ queue = <<>>
    /\ sessions = 0
    /\ attempts = [i \in ReminderIds |-> 0]
    /\ successes = [i \in ReminderIds |-> 0]
    /\ early = {}
    /\ crashes = 0
    /\ crashSeen = [i \in ReminderIds |-> 0]
    /\ boot = [at |-> now, overdue |-> {}]
    /\ tick = [elig |-> {}, count |-> [i \in ReminderIds |-> 0]]
    /\ last = NoCall

CallParseReminderData(date_str, time_str, user_timezone) ==
    /\ LET reminder_data == [date |-> date_str, time |-> time_str]
           p == parse_reminder_data(reminder_data, user_timezone, now)
       IN  Called("parse_reminder_data", 0,
                  [date |-> date_str, time |-> time_str, tz |-> user_timezone],
                  p.ok, IF p.ok THEN <<p.dt>> ELSE <<>>, TRUE)
    /\ UNCHANGED <<sessions, now, up, users, store, nextId, timers, sweepAt, pc, job, queue,
                   attempts, successes, early, crashes, crashSeen, boot, tick>>

NextParse ==
    \E d \in DateTokens, t \in TimeTokens, z \in Timezones :
        CallParseReminderData(d, t, z)

SpecParse == InitParse /\ [][NextParse]_vars

\* ================================================================ claims

\* the ids of the rows of users with the given telegram_id
UsersOf(telegram_id) == {u \in DOMAIN users : users[u].telegram_id = telegram_id}

\* C1: after a crash that hits a reminder between "persisted" and "sent"
\* (also between the commit of mark_reminder_as_sent and send_message) the
\* restarted process still gets the overdue, uncompleted reminder from
\* get_pending_reminders, so that a check can deliver it.
C1_CrashLeavesPending ==
    (up /\ crashes > 0 /\ pc = "idle") =>
        \A i \in DOMAIN store :
            (attempts[i] = 0 /\ ~store[i].is_completed /\ store[i].reminder_date <= now)
                => i \in PendingIds(store, now, now)

\* C2: under fair scheduling every reminder persisted by create_reminder is
\* eventually handed to send_message, at or after its due instant, unless it is
\* completed or deleted, whatever crashes and restarts happen before it is due.
C2_AtLeastOnce ==
    \A i \in ReminderIds :
        [](i \in DOMAIN store =>
              <>(\/ attempts[i] >= 1 /\ i \notin early
                 \/ i \notin DOMAIN store
                 \/ store[i].is_completed
                 \/ crashSeen[i] = 2))

C2_Witness ==
    \E i \in DOMAIN store :
        /\ crashSeen[i] = 1
        /\ attempts[i] >= 1
        /\ i \notin early
        /\ ~store[i].is_completed

\* C3: on both delivery paths mark_reminder_as_sent is called only after
\* send_message has returned successfully for that reminder, so a stored
\* reminder with is_sent = TRUE has had a successful send_message.
C3_SentImpliesDelivered ==
    \A i \in DOMAIN store : store[i].is_sent => successes[i] >= 1

\* C4: when send_message raises in _send_reminder_callback the reminder stays
\* is_sent = FALSE in the Store (so that a later check finds it again).
C4_FailedFireStaysUnsent ==
    [][(/\ pc = "send"
        /\ pc' = "idle"
        /\ attempts' # attempts
        /\ successes' = successes
        /\ job.reminder_id \in DOMAIN store)
            => store'[job.reminder_id].is_sent = FALSE]_vars

\* C5: after a successful delete through _handle_delete_reminder no job of the
\* deleted reminder is left in the job queue: every armed timer belongs to a
\* stored reminder.
C5_NoTimerForDeleted ==
    \A j \in timers : j.data.reminder_id \in DOMAIN store

\* at the end of a check: one attempt for each eligible reminder, none for others
C6_TickAttempts ==
    (up /\ pc = "check" /\ queue = <<>>) =>
        \A i \in ReminderIds : tick.count[i] = IF i \in tick.elig THEN 1 ELSE 0

\* a direct send is never made for a reminder already delivered
C6_NoAttemptAfterSuccess ==
    (pc = "direct" /\ attempts' # attempts) => successes[job.reminder_id] = 0

\* C6: a check makes exactly one delivery attempt for every reminder that is
\* overdue, unsent, uncompleted and has no armed timer when the check runs (and
\* none for any other reminder), and a check never makes an attempt for a
\* reminder that has already been delivered successfully.
C6_SweepOnce == []C6_TickAttempts /\ [][C6_NoAttemptAfterSuccess]_vars

C6_Witness ==
    /\ up
    /\ pc = "check"
    /\ queue = <<>>
    /\ \E i \in tick.elig : tick.count[i] = 1 /\ successes[i] = 1

\* C7: a process started with a persisted reminder that is overdue, unsent and
\* uncompleted delivers it exactly once in total, and has done so one check
\* interval after the start (unless the user completed or deleted it first).
C7_RestartDeliversOnce ==
    up => \A i \in boot.overdue :
             /\ successes[i] <= 1
             /\ now >= boot.at + INTERVAL =>
                   \/ successes[i] = 1
                   \/ i \notin DOMAIN store
                   \/ store[i].is_completed

C7_Witness ==
    /\ up
    /\ pc = "idle"
    /\ crashes > 0
    /\ now >= boot.at + INTERVAL + FIRST_RUN
    /\ sweepAt > now
    /\ \E i \in boot.overdue : successes[i] = 1 /\ attempts[i] = 1

\* C8: is_sent is monotonic: no step sets is_sent of a stored reminder back
\* to FALSE while the record exists.
C8_SentMonotonic ==
    [][\A i \in DOMAIN store \cap DOMAIN store' :
          store[i].is_sent => store'[i].is_sent]_vars

C8_Witness ==
    /\ up
    /\ crashes > 0
    /\ \E i \in DOMAIN store : store[i].is_sent /\ store[i].is_completed

\* C9: mark_reminder_as_sent on an existing reminder returns True and leaves
\* is_sent = TRUE and nothing else changed; called again on a reminder already
\* sent it returns True and changes nothing; on an id that does not exist it
\* returns False and changes nothing.
C9_MarkSentIdempotent ==
    last.op = "mark_reminder_as_sent" =>
        IF last.id \in DOMAIN last.before
        THEN /\ last.ok
             /\ store = [last.before EXCEPT ![last.id].is_sent = TRUE]
             /\ last.before[last.id].is_sent => store = last.before
        ELSE /\ ~last.ok
             /\ store = last.before

C9_Witness ==
    /\ last.op = "mark_reminder_as_sent"
    /\ last.id \in DOMAIN last.before
    /\ last.before[last.id].is_sent
    /\ last.ok
    /\ store = last.before

\* C10: get_pending_reminders(limit_date) returns, each once, exactly the
\* stored reminders with reminder_date <= limit_date, is_sent = FALSE and
\* is_completed = FALSE.
C10_PendingExact ==
    (last.op = "get_pending_reminders" /\ last.arg # NoneDate) =>
        /\ {last.rows[k] : k \in DOMAIN last.rows} =
              {i \in DOMAIN store :
                  /\ store[i].reminder_date <= last.arg
                  /\ ~store[i].is_sent
                  /\ ~store[i].is_completed}
        /\ \A k, l \in DOMAIN last.rows : k # l => last.rows[k] # last.rows[l]

C10_Witness ==
    /\ last.op = "get_pending_reminders"
    /\ last.arg # NoneDate
    /\ Len(last.rows) = 1
    /\ store[last.rows[1]].reminder_date = last.arg
    /\ \E i \in DOMAIN store :
          i # last.rows[1] /\ store[i].reminder_date <= last.arg /\ store[i].is_completed

\* C11: the sequence get_pending_reminders returns is in ascending order of
\* reminder_date, and two reminders of equal reminder_date appear in ascending
\* order of id, so that the Store alone determines the order of the result.
C11_PendingOrderDetermined ==
    last.op = "get_pending_reminders" =>
        \A k, l \in DOMAIN last.rows :
            k < l =>
                \/ store[last.rows[k]].reminder_date < store[last.rows[l]].reminder_date
                \/ /\ store[last.rows[k]].reminder_date = store[last.rows[l]].reminder_date
                   /\ last.rows[k] < last.rows[l]

\* C12: delete_reminder(reminder_id, telegram_id) removes the record, and
\* returns True, only when telegram_id identifies the user the reminder belongs
\* to; called by another user, by an unknown user or for an id that does not
\* exist it returns False and leaves the Store unchanged.
C12_DeleteOnlyByOwner ==
    last.op = "delete_reminder" =>
        IF /\ last.id \in DOMAIN last.before
           /\ last.before[last.id].user_id \in UsersOf(last.arg)
        THEN /\ last.ok
             /\ DOMAIN store = DOMAIN last.before \ {last.id}
             /\ \A i \in DOMAIN store : store[i] = last.before[i]
        ELSE /\ ~last.ok
             /\ store = last.before

C12_Witness ==
    /\ last.op = "delete_reminder"
    /\ last.id \in DOMAIN last.before
    /\ UsersOf(last.arg) # {}
    /\ last.before[last.id].user_id \notin UsersOf(last.arg)
    /\ ~last.ok
    /\ store = last.before

\* C13: create_reminder for a telegram_id that has no User returns None and
\* adds no record to the Store; hence every stored reminder's user_id is the id
\* of an existing user.
C13_CreateNeedsUser ==
    /\ (last.op = "create_reminder" /\ UsersOf(last.arg) = {}) =>
          /\ ~last.ok
          /\ last.id = 0
          /\ store = last.before
    /\ \A i \in DOMAIN store : store[i].user_id \in DOMAIN users

C13_Witness ==
    /\ last.op = "create_reminder"
    /\ UsersOf(last.arg) = {}
    /\ ~last.ok
    /\ store = last.before
    /\ store # <<>>

\* C14: create_reminder, mark_reminder_as_sent, mark_reminder_as_completed and
\* delete_reminder are all-or-nothing: when the commit fails the call rolls
\* back, returns None / False, and the Store is what it was before the call.
C14_FailedCommitChangesNothing ==
    (/\ last.op \in {"create_reminder", "mark_reminder_as_sent",
                     "mark_reminder_as_completed", "delete_reminder"}
     /\ ~last.commit) =>
        /\ ~last.ok
        /\ store = last.before
        /\ last.op = "create_reminder" => last.id = 0

C14_Witness ==
    /\ last.op = "mark_reminder_as_sent"
    /\ ~last.commit
    /\ last.id \in DOMAIN last.before
    /\ ~last.before[last.id].is_sent
    /\ ~last.ok
    /\ store = last.before

\* C15: schedule_reminder arms the timer with the delay
\* max(reminder_date - now, 60 s): 60 s for a reminder that is past due, and
\* never less than 60 s for a reminder due less than 60 s ahead.
C15_DelayAtLeastFloor ==
    (last.op = "schedule_reminder" /\ last.ok) =>
        /\ \E j \in timers : j.data.reminder_id = last.id
        /\ \A j \in timers :
              j.data.reminder_id = last.id =>
                  j.at - now = IF store[last.id].reminder_date - now > FLOOR_DELAY
                               THEN store[last.id].reminder_date - now
                               ELSE FLOOR_DELAY

\* C16: cancel_reminder(job_id) returns True whether or not a job is armed
\* under job_id: every job named job_id is removed, no job of another name is
\* touched, and with no job named job_id the job queue is unchanged.
C16_CancelRemovesOnlyNamed ==
    [][last'.op = "cancel_reminder" =>
          /\ last'.ok
          /\ timers' = {j \in timers : j.name # last'.arg}]_vars

C16_Witness ==
    /\ last.op = "cancel_reminder"
    /\ last.ok
    /\ last.id = MaxArmed
    /\ timers # {}
    /\ \A j \in timers : j.name # last.arg

C18_BadTimeDefaultsToNine ==
    (/\ last.op = "parse_reminder_data"
     /\ last.arg.tz \in DOMAIN UtcOffset
     /\ last.arg.time \in {<<>>,
                           <<"x">>,
                           <<"1", "4", ":", "x", "x">>,
                           <<":", "3", "0">>,
                           <<"2", "5", ":", "9", "9">>,
                           <<"2", "4", ":", "0", "0">>,
                           <<"1", "2", ":", "6", "0">>,
                           <<"-", "1", ":", "0", "0">>,
                           <<"3", "0">>}) =>
        /\ Len(last.rows) = 1
        /\ (last.rows[1] + UtcOffset[last.arg.tz]) % (24 * 3600) = 9 * 3600
        /\ (last.rows[1] + UtcOffset[last.arg.tz]) \div (24 * 3600) =
              TargetDate(last.arg.date, now + UtcOffset[last.arg.tz])

\* C19: with a valid user timezone parse_reminder_data returns a UTC instant
\* for every date token and every time token (any string, empty or absent): it
\* never returns None, so no date/time text blocks the creation of a reminder.
C19_ParseIsTotal ==
    (last.op = "parse_reminder_data" /\ last.arg.tz \in DOMAIN UtcOffset) =>
        last.ok /\ Len(last.rows) = 1

\* C20: for a date token among "amanhã", "amanha", "tomorrow" and a valid HH:MM
\* time token parse_reminder_data returns the UTC instant of HH:MM local time on
\* the day after the user's local current date, that is the local wall time
\* minus the zone's UTC offset; for "hoje", "today" it is the user's local
\* current date.
C20_RelativeDateLocal ==
    \A t \in {[tok |-> <<"1", "4", ":", "0", "0">>, hour |-> 14, minute |-> 0],
              [tok |-> <<"2", "3", ":", "5", "9">>, hour |-> 23, minute |-> 59]} :
        (/\ last.op = "parse_reminder_data"
         /\ last.arg.tz \in DOMAIN UtcOffset
         /\ last.arg.time = t.tok
         /\ last.arg.date \in {"amanhã", "amanha", "tomorrow", "hoje", "today"}) =>
            LET offset == UtcOffset[last.arg.tz]
                local_day == (now + offset) \div (24 * 3600)
                day == IF last.arg.date \in {"hoje", "today"}
                       THEN local_day
                       ELSE local_day + 1
            IN  last.rows = <<day * 24 * 3600 + t.hour * 3600 + t.minute * 60 - offset>>

\* local now 2024-03-01 10:00 at UTC-3, "amanhã" at "14:00": 2024-03-02T17:00Z
C20_Witness ==
    /\ last.op = "parse_reminder_data"
    /\ now = 24 * 3600 + 13 * 3600
    /\ last.arg = [date |-> "amanhã", time |-> <<"1", "4", ":", "0", "0">>,
                   tz |-> "America/Sao_Paulo"]
    /\ last.rows = <<2 * 24 * 3600 + 17 * 3600>>

\* C21: round trip: the instant the creation flow stores, converted back to
\* the user's timezone as format_reminder_list does, shows exactly the local
\* date and HH:MM that parse_reminder_data chose, in every timezone.
C21_RoundTripWallClock ==
    (last.op = "parse_reminder_data" /\ last.ok) =>
        strftime(astimezone(last.rows[1], last.arg.tz)) =
            [day |-> TargetDate(last.arg.date,
                                now + OffsetAt(last.arg.tz, now)),
             hour |-> HourMinute(last.arg.time).hour,
             minute |-> HourMinute(last.arg.time).minute]

\* C22: in the creation flow, when create_reminder returns None because the
\* write failed, the flow stops there: no job is added to the job queue, the
\* Store holds no new record, and the user gets the generic failure reply.
C22_FailedCreateAborts ==
    [][(/\ last' # last
        /\ last'.op = "_handle_reminder_creation"
        /\ ~last'.commit) =>
            /\ last'.id = 0
            /\ store' = store
            /\ timers' = timers
            /\ last'.rows = <<"Erro ao criar lembrete. Tente novamente.">>]_vars

C22_Witness ==
    /\ last.op = "_handle_reminder_creation"
    /\ ~last.commit
    /\ last.id = 0
    /\ store = <<>>
    /\ timers = {}
    /\ last.rows = <<"Erro ao criar lembrete. Tente novamente.">>

\* after a creation whose schedule_reminder failed: the record is stored
\* unsent, the job queue is as it was and no delivery attempt is made
C23_NoImmediateRetry ==
    (/\ last' # last
     /\ last'.op = "_handle_reminder_creation"
     /\ last'.id # 0
     /\ ~last'.ok) =>
        /\ last'.id \in DOMAIN store'
        /\ ~store'[last'.id].is_sent
        /\ timers' = timers
        /\ attempts' = attempts

C24_CompletedIndependent ==
    [][\A i \in DOMAIN store \cap DOMAIN store' :
          /\ store'[i].is_completed # store[i].is_completed =>
                /\ store' = [store EXCEPT ![i].is_completed = TRUE]
                /\ pc = "idle" /\ pc' = "idle"
                /\ up /\ up'
                /\ timers' = timers
                /\ attempts' = attempts
          /\ store'[i].is_sent # store[i].is_sent =>
                store'[i].is_completed = store[i].is_completed]_vars

C24_Witness ==
    \E i \in DOMAIN store :
        /\ store[i].is_completed
        /\ store[i].is_sent
        /\ successes[i] = 1
        /\ crashes = 0

\* C25: in every reachable Store no two reminders, of one user or of two,
\* created before or after deletions of others, have the same job_id.
C25_JobIdUnique ==
    \A i, j \in DOMAIN store : i # j => store[i].job_id # store[j].job_id

\* a create_reminder that drew a uuid already stored for the user was refused
C25_Witness ==
    /\ last.op = "create_reminder"
    /\ UsersOf(last.arg) # {}
    /\ last.commit
    /\ ~last.ok
    /\ store = last.before
    /\ \E i \in DOMAIN store : store[i].user_id \in UsersOf(last.arg)

C27_UserRemindersExact ==
    last.op = "get_user_reminders" =>
        /\ {last.rows[k] : k \in DOMAIN last.rows} =
              {i \in DOMAIN store :
                  /\ store[i].user_id \in UsersOf(last.arg.telegram_id)
                  /\ last.arg.include_completed \/ ~store[i].is_completed}
        /\ \A k, l \in DOMAIN last.rows : k # l => last.rows[k] # last.rows[l]
        /\ \A k, l \in DOMAIN last.rows :
              k < l => store[last.rows[k]].reminder_date <= store[last.rows[l]].reminder_date
        /\ UsersOf(last.arg.telegram_id) = {} => last.rows = <<>>

\* the Store holds a reminder of the user and one of another user, and the
\* call returned the user's alone
C27_Witness ==
    /\ last.op = "get_user_reminders"
    /\ Len(last.rows) = 1
    /\ \E i \in DOMAIN store :
          /\ store[i].user_id \notin UsersOf(last.arg.telegram_id)
          /\ ~store[i].is_completed

\* C28: a turn of the periodic check goes on to deliver the pending overdue
\* reminder it visits if and only if no job of that reminder's job_id is armed
\* at that moment; so the check sends while no job of the reminder is armed,
\* and neither the check nor a timer fire sends a reminder that was sent
\* before: the two never both deliver one reminder.
C28_SweepIffUnarmed ==
    [][ /\ (up' /\ pc = "check" /\ queue # <<>> /\ queue' = Tail(queue)) =>
              /\ Head(queue).reminder_id \in DOMAIN store
              /\ Head(queue).job_id = store[Head(queue).reminder_id].job_id
              /\ store[Head(queue).reminder_id].reminder_date <= now
              /\ ~store[Head(queue).reminder_id].is_sent
              /\ (pc' = "direct") <=> (\A j \in timers : j.name # Head(queue).job_id)
        /\ (up' /\ pc = "direct" /\ pc' = "check") =>
              /\ \A j \in timers : j.data.reminder_id # job.reminder_id
              /\ attempts[job.reminder_id] = 0
              /\ attempts'[job.reminder_id] = 1
        /\ (up' /\ pc = "send" /\ pc' = "idle") =>
              /\ attempts[job.reminder_id] = 0
              /\ attempts'[job.reminder_id] = 1
      ]_vars

\* the periodic check has visited an overdue unsent reminder whose job was
\* still armed (the floor delay of a reminder created past due) and sent nothing
C28_Witness ==
    /\ pc = "check"
    /\ queue = <<>>
    /\ \E i \in DOMAIN store :
          /\ store[i].reminder_date <= now
          /\ ~store[i].is_sent
          /\ ~store[i].is_completed
          /\ attempts[i] = 0
          /\ \E j \in timers : j.name = store[i].job_id /\ j.at > store[i].reminder_date

\* C29: no early delivery. Every step that calls send_message for a stored
\* reminder, from a timer fire or from the periodic check, is taken at or
\* after that reminder's reminder_date.
C29_NoEarlyDelivery ==
    [][ \A i \in ReminderIds :
            (attempts'[i] # attempts[i] /\ i \in DOMAIN store) =>
                store[i].reminder_date <= now
      ]_vars

\* a reminder due after the start was sent at its reminder_date, not before
C29_Witness ==
    \E i \in DOMAIN store :
        /\ attempts[i] = 1
        /\ store[i].reminder_date > 0
        /\ store[i].reminder_date = now

\* C30: the rearm pass is complete before the periodic check first runs.
\* Every run of the periodic check starts in a started process, at least
\* FIRST_RUN after the start and a whole number of INTERVALs after the first
\* run, and at that moment every unsent, uncompleted reminder still due in the
\* future has a job armed at its reminder_date.
C30_RearmBeforeFirstSweep ==
    [][ (pc = "idle" /\ pc' = "check") =>
            /\ up
            /\ now >= boot.at + FIRST_RUN
            /\ (sweepAt - (boot.at + FIRST_RUN)) % INTERVAL = 0
            /\ sweepAt' = sweepAt + INTERVAL
            /\ \A i \in DOMAIN store :
                  (~store[i].is_sent /\ ~store[i].is_completed
                      /\ store[i].reminder_date > now) =>
                      \E j \in timers :
                          /\ j.name = store[i].job_id
                          /\ j.at = store[i].reminder_date
      ]_vars

\* the first periodic check after a start has queried the Store, FIRST_RUN
\* after the start, while a reminder left by an earlier run and due later is
\* pending with the job the rearm pass armed for it
C30_Witness ==
    /\ pc = "check"
    /\ last = NoCall
    /\ now = boot.at + FIRST_RUN
    /\ sweepAt = boot.at + FIRST_RUN + INTERVAL
    /\ \E i \in DOMAIN store :
          /\ ~store[i].is_sent
          /\ ~store[i].is_completed
          /\ store[i].reminder_date > now
          /\ \E j \in timers : j.name = store[i].job_id /\ j.at = store[i].reminder_date

\* C31: a failure while the periodic check delivers one reminder (send_message
\* raises, or the commit of mark_reminder_as_sent fails) does not end the
\* check: when the check returns, every reminder that was overdue, unsent,
\* uncompleted and without an armed job when the check ran has had exactly one
\* send attempted by this check, whatever failed for the others.
C31_FailureDoesNotAbortTick ==
    [][ (up' /\ pc = "check" /\ pc' = "idle") =>
            \A i \in DOMAIN tick.count :
                tick.count[i] = IF i \in tick.elig THEN 1 ELSE 0
      ]_vars

\* a check has gone through a batch of two reminders: the send failed for
\* both, the commit failed for one of them, and both had their attempt
C31_Witness ==
    /\ up
    /\ pc = "check"
    /\ queue = <<>>
    /\ tick.elig = {1, 2}
    /\ tick.count[1] = 1 /\ tick.count[2] = 1
    /\ successes[1] = 0 /\ successes[2] = 0
    /\ \E i \in {1, 2} : ~store[i].is_sent

\* C32: for a date token that is neither one of the today and tomorrow words
\* nor a string holding a date ("depois", the empty string) and a valid HH:MM
\* time token, parse_reminder_data does not fail: it returns the UTC instant of
\* HH:MM local time on the user's local current date.
C32_UnparseableDateIsToday ==
    \A t \in {[tok |-> <<"1", "4", ":", "0", "0">>, hour |-> 14, minute |-> 0],
              [tok |-> <<"2", "3", ":", "5", "9">>, hour |-> 23, minute |-> 59]} :
        (/\ last.op = "parse_reminder_data"
         /\ last.arg.tz \in DOMAIN UtcOffset
         /\ last.arg.time = t.tok
         /\ last.arg.date \in {"depois", ""}) =>
            /\ last.ok
            /\ Len(last.rows) = 1
            /\ LET local_today == (now + OffsetAt(last.arg.tz, now)) \div (24 * 3600)
                   shown == last.rows[1] + OffsetAt(last.arg.tz, last.rows[1])
               IN  shown = local_today * 24 * 3600 + t.hour * 3600 + t.minute * 60

\* 2024-03-02T20:00Z is 2024-03-03 05:00 in Tokyo: "depois" at "14:00" is
\* 14:00 of the 3rd there, 2024-03-03T05:00Z
C32_Witness ==
    /\ last.op = "parse_reminder_data"
    /\ now = 2 * 24 * 3600 + 20 * 3600
    /\ last.arg = [date |-> "depois", time |-> <<"1", "4", ":", "0", "0">>,
                   tz |-> "Asia/Tokyo"]
    /\ last.rows = <<3 * 24 * 3600 + 5 * 3600>>

C35_TimerIgnoresCompleted ==
    [][ /\ (\E i \in DOMAIN store \cap DOMAIN store' :
                store'[i].is_completed /\ ~store[i].is_completed) => timers' = timers
        /\ (up' /\ pc = "idle" /\ timers' # timers /\ timers' \subseteq timers) =>
              /\ pc' = "send"
              /\ \E j \in timers : timers' = timers \ {j} /\ job' = j.data
              /\ job'.reminder_id \in DOMAIN store => store'[job'.reminder_id].is_sent
        /\ (up' /\ pc = "send" /\ pc' = "idle") =>
              attempts'[job.reminder_id] = attempts[job.reminder_id] + 1
        /\ (pc = "direct" /\ attempts' # attempts) =>
              /\ job.reminder_id \in DOMAIN store
              /\ ~store[job.reminder_id].is_completed
      ]_vars

\* the job of a reminder completed by the user has fired: the reminder is
\* marked sent and the send is about to be made
C35_Witness ==
    /\ pc = "send"
    /\ job.reminder_id \in DOMAIN store
    /\ store[job.reminder_id].is_completed
    /\ store[job.reminder_id].is_sent
    /\ attempts[job.reminder_id] = 0

\* C36: completing checks no owner. _handle_complete_reminder succeeds for
\* every stored reminder id, whoever pressed the button: the reminder is then
\* completed, also when it belongs to another user, and nothing else in the
\* Store changes.
C36_CompleteHasNoOwnerCheck ==
    (last.op = "_handle_complete_reminder" /\ last.id \in DOMAIN last.before) =>
        /\ last.ok
        /\ store = [last.before EXCEPT ![last.id].is_completed = TRUE]

\* the user of telegram id 102 has completed a reminder of the user of
\* telegram id 101
C36_Witness ==
    /\ last.op = "_handle_complete_reminder"
    /\ last.arg = 102
    /\ last.ok
    /\ last.id \in DOMAIN last.before
    /\ last.before[last.id].user_id \in UsersOf(101)
    /\ ~last.before[last.id].is_completed
    /\ store = [last.before EXCEPT ![last.id].is_completed = TRUE]

\* the reminders of the user of the last get_reminder_statistics call
C37_Mine ==
    {i \in DOMAIN store :
        store[i].user_id = get_user_by_telegram_id(users, last.arg.telegram_id)}

\* C37: the statistics partition the user's reminders. For a known user,
\* total is the number of the user's reminders and equals
\* completed + pending + overdue; completed counts the completed ones,
\* pending the uncompleted ones due after the instant of the call and overdue
\* the uncompleted ones due at or before it, sent or not.
C37_StatisticsPartition ==
    (last.op = "get_reminder_statistics" /\ last.ok) =>
        /\ last.rows.total = Cardinality(C37_Mine)
        /\ last.rows.total =
              last.rows.completed + last.rows.pending + last.rows.overdue
        /\ last.rows.completed =
              Cardinality({i \in C37_Mine : store[i].is_completed})
        /\ last.rows.pending =
              Cardinality({i \in C37_Mine :
                  ~store[i].is_completed
                  /\ store[i].reminder_date > last.arg.now_pending})
        /\ last.rows.overdue =
              Cardinality({i \in C37_Mine :
                  ~store[i].is_completed
                  /\ store[i].reminder_date <= last.arg.now_pending})

\* C38: the job count includes the periodic check. On the running bot
\* get_scheduled_jobs_count returns the number of armed reminder jobs plus
\* one, the job of the periodic check, not the number of reminder jobs alone.
C38_JobsCountIncludesPeriodic ==
    last.op = "get_scheduled_jobs_count" =>
        /\ last.rows = Cardinality(timers) + 1
        /\ last.rows # Cardinality(timers)

\* the count of a queue holding the jobs of two reminders is three
C38_Witness ==
    /\ last.op = "get_scheduled_jobs_count"
    /\ \E j, k \in timers : j.name # k.name /\ timers = {j, k}
    /\ last.rows = 3
====
